---- MODULE Spec2Model ----
(***************************************************************************)
(* Model of extract-color-palettes.py: the palette extractor               *)
(* (extract_color_palette), the container reader (extract_png_from_svg)    *)
(* and the batch driver (main).                                            *)
(*                                                                         *)
(* Conventions.                                                            *)
(*  - A pixel is a tuple <<r, g, b, a>> (mode RGBA) or <<r, g, b>> (mode   *)
(*    RGB); an image is a record [mode, data] with data the sequence that  *)
(*    image.getdata() yields.                                              *)
(*  - A percentage is kept in hundredths of a percent, as an integer:      *)
(*    10000 stands for 100.0 and 1667 for 16.67.  round(x, 2) is modelled  *)
(*    by RoundHalfEven on the exact quotient; the float quotient differs   *)
(*    from the exact one by far less than the distance to a rounding       *)
(*    boundary for every image of the model.                               *)
(*  - A hex colour is the sequence of its characters, <<"#","C","3",...>>. *)
(*  - A file name and an asset identifier are sequences of code points.    *)
(***************************************************************************)
EXTENDS Integers, Sequences, FiniteSets, TLC

VARIABLES
  image,        \* extract_color_palette: the image argument
  max_colors,   \* extract_color_palette: the max_colors argument
  min_pixels,   \* extract_color_palette: the min_pixels argument
  result,       \* extract_color_palette: the returned palette
  pc,           \* position of the running function
  files,        \* main: the directory, file name -> container content
  svg_files,    \* main: sorted(icons_dir.glob('*.svg'))
  idx,          \* main: position of the for loop in svg_files
  output,       \* main: the output dict, in insertion order
  log,          \* main: the lines printed so far
  disk          \* main: color-palettes.json as it is on disk

\* color-palettes.json: whether it exists and the document it holds.
File(state, doc) == [state |-> state, doc |-> doc]

vars == <<image, max_colors, min_pixels, result, pc,
          files, svg_files, idx, output, log, disk>>

extractVars == <<image, max_colors, min_pixels, result>>
mainVars == <<files, svg_files, idx, output, log, disk>>

----------------------------------------------------------------------------
(* Bounds of the model *)

MaxPixels == 6
MaxColorsArg == 3
MaxMinPixels == 2

----------------------------------------------------------------------------
(* Python built-ins used by the code *)

\* round(num / den) for num >= 0, den > 0: nearest integer, ties to even.
RoundHalfEven(num, den) ==
  LET q == num \div den
      r == num % den
  IN  IF 2 * r < den THEN q
      ELSE IF 2 * r > den THEN q + 1
      ELSE IF q % 2 = 0 THEN q ELSE q + 1

HexDigits == <<"0","1","2","3","4","5","6","7","8","9","A","B","C","D","E","F">>

RECURSIVE HexOf(_)
\* format(n, 'X'): the uppercase hex digits of n >= 0, no padding.
HexOf(n) ==
  IF n < 16 THEN <<HexDigits[n + 1]>>
  ELSE HexOf(n \div 16) \o <<HexDigits[(n % 16) + 1]>>

\* format(n, '02X'): zero-padded to a width of at least two.
Hex02X(n) == IF n < 16 THEN <<"0">> \o HexOf(n) ELSE HexOf(n)

\* seq[:n] for n >= 0.
Slice(seq, n) == SubSeq(seq, 1, IF n < Len(seq) THEN n ELSE Len(seq))

----------------------------------------------------------------------------
(* extract_color_palette, lines 25-73 *)

\* lines 28-32: convert('RGBA') gives an RGB pixel the alpha 255.
PixelsRGBA(img) ==
  IF img.mode = "RGBA" THEN img.data
  ELSE [k \in 1..Len(img.data) |-> Append(img.data[k], 255)]

\* A slip that keeps a pixel of alpha 127.
IsOpaqueInclusive(p) == p[4] >= 127

\* line 37
IsOpaque(p) == p[4] > 127

\* lines 35-38
OpaquePixels(pixels) == SelectSeq(pixels, IsOpaque)

\* A slip that truncates instead of rounding.
QuantizeChannelFloor(c) == (c \div 15) * 15

\* lines 47-49: round(c / 15) * 15
QuantizeChannel(c) == RoundHalfEven(c, 15) * 15

\* lines 44-50
Quantized(opaque_pixels) ==
  [k \in 1..Len(opaque_pixels) |->
     <<QuantizeChannel(opaque_pixels[k][1]),
       QuantizeChannel(opaque_pixels[k][2]),
       QuantizeChannel(opaque_pixels[k][3])>>]

\* Counter: adding n occurrences of a colour.  A known key keeps its place
\* and its count grows; a new key goes to the end.  An item is
\* <<color, count>>.
CounterAdd(items, color, n) ==
  IF \E k \in 1..Len(items) : items[k][1] = color
  THEN [k \in 1..Len(items) |->
          IF items[k][1] = color THEN <<color, items[k][2] + n>> ELSE items[k]]
  ELSE Append(items, <<color, n>>)

RECURSIVE CounterUpdate(_, _)
\* The items after counting, in their order, the elements that more counts.
CounterUpdate(items, more) ==
  IF more = <<>> THEN items
  ELSE CounterUpdate(CounterAdd(items, more[1][1], more[1][2]), Tail(more))

RECURSIVE CounterItems(_)
\* line 53 and .items() of line 57: the items in first-insertion order.
\* Counting a list is counting its first half and then its second half.
CounterItems(quantized) ==
  IF quantized = <<>> THEN <<>>
  ELSE IF Len(quantized) = 1 THEN <<<<quantized[1], 1>>>>
  ELSE LET half == Len(quantized) \div 2
       IN  CounterUpdate(CounterItems(SubSeq(quantized, 1, half)),
                         CounterItems(SubSeq(quantized, half + 1, Len(quantized))))

\* A slip that asks for more than min_pixels.
MeetsThresholdStrict(count, minPixels) == count > minPixels

\* line 58
MeetsThreshold(count, minPixels) == count >= minPixels

\* lines 56-59
Filtered(items, minPixels) ==
  SelectSeq(items, LAMBDA it : MeetsThreshold(it[2], minPixels))

\* A slip that leaves out reverse=True.
CountBeforeAscending(x, y) == x[2] < y[2]

\* The key order of line 60: x goes before y when its count is larger.
CountBefore(x, y) == x[2] > y[2]

\* Insert it behind every item that does not have to come after it: stable.
SortInsert(sorted, it) ==
  LET later == {k \in 1..Len(sorted) : CountBefore(it, sorted[k])}
      pos == IF later = {} THEN Len(sorted) + 1
             ELSE CHOOSE k \in later : \A j \in later : k <= j
  IN  SubSeq(sorted, 1, pos - 1) \o <<it>> \o SubSeq(sorted, pos, Len(sorted))

RECURSIVE SortByCount(_)
\* line 60: list.sort(key=count, reverse=True), a stable sort.
SortByCount(items) ==
  IF items = <<>> THEN <<>>
  ELSE SortInsert(SortByCount(SubSeq(items, 1, Len(items) - 1)),
                  items[Len(items)])

\* A slip that keeps one entry too many.
TruncatedOffByOne(sorted, maxColors) == Slice(sorted, maxColors + 1)

\* line 64: filtered[:max_colors]
Truncated(sorted, maxColors) == Slice(sorted, maxColors)

\* line 65
HexColor(color) ==
  <<"#">> \o Hex02X(color[1]) \o Hex02X(color[2]) \o Hex02X(color[3])

\* lines 66 and 70, in hundredths of a percent; total is len(opaque_pixels).
\* A total of 0 is the code's ZeroDivisionError: the quotient is undefined
\* here as well, and TLC stops when it evaluates it.
Percentage(count, total) == RoundHalfEven(count * 10000, total)

\* A slip that divides by the number of colours kept by the threshold.
PercentageBaseColours(opaque_pixels, filtered) == Len(filtered)

\* A slip that divides by the pixels of the colours kept by the threshold.
PercentageBaseFiltered(opaque_pixels, filtered) ==
  LET RECURSIVE total(_)
      total(s) == IF s = <<>> THEN 0 ELSE s[1][2] + total(Tail(s))
  IN  total(filtered)

\* line 66: the denominator of the percentage.
PercentageBase(opaque_pixels, filtered) == Len(opaque_pixels)

\* lines 67-71
PaletteEntry(it, total) ==
  [color |-> HexColor(it[1]),
   pixelCount |-> it[2],
   percentage |-> Percentage(it[2], total)]

\* lines 43-73, reached when opaque_pixels is not empty.
Palette(opaque_pixels, maxColors, minPixels) ==
  LET filtered == SortByCount(Filtered(CounterItems(Quantized(opaque_pixels)),
                                       minPixels))
      kept == Truncated(filtered, maxColors)
      total == PercentageBase(opaque_pixels, filtered)
  IN  [k \in 1..Len(kept) |-> PaletteEntry(kept[k], total)]

\* lines 25-73
extract_color_palette(img, maxColors, minPixels) ==
  LET opaque_pixels == OpaquePixels(PixelsRGBA(img))
  IN  IF opaque_pixels = <<>> THEN <<>>
      ELSE Palette(opaque_pixels, maxColors, minPixels)

----------------------------------------------------------------------------
(* The inputs of the extractor *)

SeqsUpTo(S, n) == UNION {[1..k -> S] : k \in 0..n}

\* Three buckets and a pixel that is just transparent.
PixelKinds ==
  { <<200, 10, 5, 255>>, <<0, 0, 0, 255>>, <<255, 255, 255, 200>>,
    <<0, 0, 0, 127>> }

\* A second raw colour of the first bucket, barely opaque.
PixelKindsNear == PixelKinds \cup { <<195, 15, 0, 128>> }

PixelKindsRGB == { <<200, 10, 5>>, <<8, 7, 23>> }

Images ==
  [mode : {"RGBA"}, data : SeqsUpTo(PixelKinds, MaxPixels)]
    \cup [mode : {"RGBA"}, data : SeqsUpTo(PixelKindsNear, MaxPixels - 2)]
    \cup [mode : {"RGB"}, data : SeqsUpTo(PixelKindsRGB, 2)]

Channel == 0..255

\* <<x, y, z>> turned left by k places.
Rotated(t, k) == [j \in 1..3 |-> t[((j + k - 1) % 3) + 1]]

\* Every image of one pixel in which one channel takes every value.
SinglePixelImages ==
  { [mode |-> "RGBA", data |-> << Rotated(<<v, w[1], w[2]>>, k) \o <<a>> >>] :
      v \in Channel, w \in {<<10, 5>>, <<128, 255>>}, k \in 0..2,
      a \in {127, 255} }

EmptyImage == [mode |-> "RGBA", data |-> <<>>]

----------------------------------------------------------------------------
(* The call of extract_color_palette as a state machine *)

\* lines 40-41
ReturnEmpty ==
  /\ pc = "call"
  /\ OpaquePixels(PixelsRGBA(image)) = <<>>
  /\ result' = <<>>
  /\ pc' = "returned"
  /\ UNCHANGED <<image, max_colors, min_pixels, mainVars>>

\* lines 43-73
ReturnPalette ==
  /\ pc = "call"
  /\ OpaquePixels(PixelsRGBA(image)) # <<>>
  /\ result' = Palette(OpaquePixels(PixelsRGBA(image)), max_colors, min_pixels)
  /\ pc' = "returned"
  /\ UNCHANGED <<image, max_colors, min_pixels, mainVars>>

MainIdle ==
  /\ files = <<>>
  /\ svg_files = <<>>
  /\ idx = 0
  /\ output = <<>>
  /\ log = <<>>
  /\ disk = File("absent", <<>>)

Init ==
  /\ image \in Images
  /\ max_colors \in 0..MaxColorsArg
  /\ min_pixels \in 0..MaxMinPixels
  /\ result = <<>>
  /\ pc = "call"
  /\ MainIdle

Next == ReturnEmpty \/ ReturnPalette

Spec == Init /\ [][Next]_vars

InitSingle ==
  /\ image \in SinglePixelImages
  /\ max_colors \in 0..2
  /\ min_pixels \in 0..2
  /\ result = <<>>
  /\ pc = "call"
  /\ MainIdle

SpecSingle == InitSingle /\ [][Next]_vars

----------------------------------------------------------------------------
(* extract_png_from_svg, lines 11-23, and the loading done by main *)

\* What a container holds.  href tells what re.search finds in the text:
\*   "none"       no href="data:image/png;base64,..." attribute,
\*   "bad_base64" an attribute whose data b64decode rejects,
\*   "not_image"  data that decodes to bytes Image.open rejects,
\*   "truncated"  a PNG whose header opens and whose pixel data do not load,
\*   "png"        a PNG that decodes to the image given.
Container(href, img) == [href |-> href, image |-> img]

\* lines 17-23: the outcome of extract_png_from_svg.
extract_png_from_svg(content) ==
  IF content.href = "none" THEN [raised |-> "ValueError", bytes |-> "none"]
  ELSE IF content.href = "bad_base64"
       THEN [raised |-> "binascii.Error", bytes |-> "none"]
  ELSE [raised |-> "no", bytes |-> content.href]

\* lines 91-95: the outcome of the try block before the dict is touched.
LoadAndExtract(content, maxColors, minPixels) ==
  LET png == extract_png_from_svg(content)
  IN  IF png.raised # "no" THEN [raised |-> png.raised, palette |-> <<>>]
      ELSE IF png.bytes = "not_image"
           THEN [raised |-> "UnidentifiedImageError", palette |-> <<>>]
      ELSE IF png.bytes = "truncated"
           THEN [raised |-> "OSError", palette |-> <<>>]
      ELSE [raised |-> "no",
            palette |-> extract_color_palette(content.image, maxColors, minPixels)]

----------------------------------------------------------------------------
(* Paths, lines 76-85 *)

SvgSuffix == <<46, 115, 118, 103>>

\* glob('*.svg'): the name ends in ".svg".
MatchesSvg(name) ==
  /\ Len(name) >= Len(SvgSuffix)
  /\ SubSeq(name, Len(name) - Len(SvgSuffix) + 1, Len(name)) = SvgSuffix

RECURSIVE LexLess(_, _)
\* a < b for two strings, code point by code point.
LexLess(a, b) ==
  IF b = <<>> THEN FALSE
  ELSE IF a = <<>> THEN TRUE
  ELSE IF a[1] # b[1] THEN a[1] < b[1]
  ELSE LexLess(Tail(a), Tail(b))

\* A slip that orders the paths from last to first.
PathBeforeDescending(a, b) == LexLess(b, a)

\* The order of two paths of one directory: that of their names.
PathBefore(a, b) == LexLess(a, b)

RECURSIVE SortedPaths(_)
\* line 79: sorted(...) of a set of paths.
SortedPaths(S) ==
  IF S = {} THEN <<>>
  ELSE LET first == CHOOSE a \in S : \A b \in S \ {a} : PathBefore(a, b)
       IN  <<first>> \o SortedPaths(S \ {first})

\* line 85: Path.stem, the name up to its last dot.
Stem(name) ==
  LET dots == {k \in 2..Len(name) : name[k] = 46}
  IN  IF dots = {} THEN name
      ELSE SubSeq(name, 1, (CHOOSE k \in dots : \A j \in dots : j <= k) - 1)

----------------------------------------------------------------------------
(* main, lines 75-122 *)

MainMaxColors == 5
MainMinPixels == 100

\* The directories main is run on.

Rep(n, p) == [k \in 1..n |-> p]

\* One colour at the threshold, one under it and a transparent pixel.
ImageRich ==
  [mode |-> "RGBA",
   data |-> Rep(MainMinPixels, <<200, 10, 5, 255>>) \o Rep(3, <<0, 0, 0, 255>>)
              \o Rep(1, <<0, 0, 0, 127>>)]

\* Opaque, and no colour reaches the threshold.
ImageSmall == [mode |-> "RGB", data |-> Rep(MainMinPixels - 1, <<8, 7, 23>>)]

\* No opaque pixel.
ImageClear == [mode |-> "RGBA", data |-> Rep(2, <<0, 0, 0, 127>>)]

Containers ==
  { Container("none", EmptyImage), Container("bad_base64", EmptyImage),
    Container("not_image", EmptyImage), Container("truncated", EmptyImage),
    Container("png", ImageRich), Container("png", ImageSmall),
    Container("png", ImageClear) }

\* What lines 91-95 give for each container, tabulated once.
Loaded ==
  [c \in Containers |-> LoadAndExtract(c, MainMaxColors, MainMinPixels)]

\* "a.svg", "a-b.svg" and "b.svg"
SvgNames ==
  { <<97>> \o SvgSuffix, <<97, 45, 98>> \o SvgSuffix, <<98>> \o SvgSuffix }

\* "a.png", which the glob does not match
OtherNames == { <<97, 46, 112, 110, 103>> }

Directories ==
  UNION { [S -> Containers] : S \in SUBSET SvgNames }
    \cup UNION { { d @@ [n \in OtherNames |-> Container("png", ImageClear)] :
                   d \in [S -> Containers] } : S \in SUBSET SvgNames }


\* lines 97-100: output[resco_name] = {...}; a key of the dict keeps its place.
DictSet(d, key, palette) ==
  LET value == [key |-> key, colors |-> palette, colorCount |-> Len(palette)]
  IN  IF \E k \in 1..Len(d) : d[k].key = key
      THEN [k \in 1..Len(d) |-> IF d[k].key = key THEN value ELSE d[k]]
      ELSE Append(d, value)

\* A slip that records the failed asset with an empty palette.
OutputOnErrorRecorded(d, key) == DictSet(d, key, <<>>)

\* lines 104-105: the except block prints and leaves the dict alone.
OutputOnError(d, key) == d

Line(kind, name, n) == [kind |-> kind, name |-> name, n |-> n]

\* lines 76-82
Glob ==
  /\ pc = "start"
  /\ svg_files' = SortedPaths({f \in DOMAIN files : MatchesSvg(f)})
  /\ log' = Append(log, Line("found", <<>>, Len(svg_files')))
  /\ output' = <<>>
  /\ idx' = 1
  /\ pc' = "loop"
  /\ UNCHANGED <<files, disk, extractVars>>

\* lines 84-102: an iteration whose try block runs to its end.
ProcessAsset ==
  /\ pc = "loop"
  /\ idx <= Len(svg_files)
  /\ LET resco_name == Stem(svg_files[idx])
         got == Loaded[files[svg_files[idx]]]
     IN  /\ got.raised = "no"
         /\ output' = DictSet(output, resco_name, got.palette)
         /\ log' = log \o <<Line("processing", resco_name, 0),
                           Line("ok", resco_name, Len(got.palette))>>
  /\ idx' = idx + 1
  /\ UNCHANGED <<pc, files, svg_files, disk, extractVars>>

\* lines 84-95 and 104-105: an iteration whose try block raises.
ProcessAssetFails ==
  /\ pc = "loop"
  /\ idx <= Len(svg_files)
  /\ LET resco_name == Stem(svg_files[idx])
         got == Loaded[files[svg_files[idx]]]
     IN  /\ got.raised # "no"
         /\ output' = OutputOnError(output, resco_name)
         /\ log' = log \o <<Line("processing", resco_name, 0),
                           Line("error", resco_name, 0)>>
  /\ idx' = idx + 1
  /\ UNCHANGED <<pc, files, svg_files, disk, extractVars>>

\* lines 108-110: the loop is over and the dict is written.
WriteOutput ==
  /\ pc = "loop"
  /\ idx > Len(svg_files)
  /\ disk' = File("written", output)
  /\ pc' = "summary"
  /\ UNCHANGED <<files, svg_files, idx, output, log, extractVars>>

\* lines 109-110 raising OSError: the run ends with the traceback; the file
\* is as it was, or was created and holds less than the document.
WriteOutputFails ==
  /\ pc = "loop"
  /\ idx > Len(svg_files)
  /\ disk' \in {disk, File("partial", <<>>)}
  /\ pc' = "aborted"
  /\ UNCHANGED <<files, svg_files, idx, output, log, extractVars>>

\* lines 112-122
Summary ==
  /\ pc = "summary"
  /\ log' = log \o <<Line("saved", <<>>, 0),
                     Line("total", <<>>, Len(output))>>
                \o (IF output = <<>> THEN <<>>
                    ELSE <<Line("example", output[1].key, Len(output[1].colors))>>)
  /\ pc' = "done"
  /\ UNCHANGED <<files, svg_files, idx, output, disk, extractVars>>

InitMain ==
  /\ files \in Directories
  /\ svg_files = <<>>
  /\ idx = 0
  /\ output = <<>>
  /\ log = <<>>
  /\ disk \in {File("absent", <<>>), File("stale", <<>>)}
  /\ pc = "start"
  /\ image = EmptyImage
  /\ max_colors = MainMaxColors
  /\ min_pixels = MainMinPixels
  /\ result = <<>>

NextMain ==
  \/ Glob
  \/ ProcessAsset
  \/ ProcessAssetFails
  \/ WriteOutput
  \/ WriteOutputFails
  \/ Summary

SpecMain == InitMain /\ [][NextMain]_vars

\* The interpreter runs the next statement as long as there is one.
SpecMainFair == SpecMain /\ WF_vars(NextMain)

----------------------------------------------------------------------------
(* What the properties of the extractor speak about, stated from the image *)
(* alone and not through the operators above.                              *)

Returned == pc = "returned"

Abs(x) == IF x < 0 THEN 0 - x ELSE x

Pixels == DOMAIN image.data

AlphaAt(i) == IF image.mode = "RGBA" THEN image.data[i][4] ELSE 255

OpaqueIdx == {i \in Pixels : AlphaAt(i) > 127}

OpaqueCount == Cardinality(OpaqueIdx)

Multiples15 == {15 * k : k \in 0..17}

\* The multiple of 15 nearest to each channel value: none is half way.
Nearest15Table ==
  [c \in 0..255 |->
     CHOOSE m \in Multiples15 : \A n \in Multiples15 : Abs(c - m) <= Abs(c - n)]

Nearest15(c) == Nearest15Table[c]

BucketAt(i) ==
  <<Nearest15(image.data[i][1]), Nearest15(image.data[i][2]),
    Nearest15(image.data[i][3])>>

Buckets == {BucketAt(i) : i \in OpaqueIdx}

CountOf(c) == Cardinality({i \in OpaqueIdx : BucketAt(i) = c})

Eligible == {c \in Buckets : CountOf(c) >= min_pixels}

HexValue ==
  [ch \in {"0","1","2","3","4","5","6","7","8","9","A","B","C","D","E","F"} |->
     CASE ch = "0" -> 0  [] ch = "1" -> 1  [] ch = "2" -> 2  [] ch = "3" -> 3
       [] ch = "4" -> 4  [] ch = "5" -> 5  [] ch = "6" -> 6  [] ch = "7" -> 7
       [] ch = "8" -> 8  [] ch = "9" -> 9  [] ch = "A" -> 10 [] ch = "B" -> 11
       [] ch = "C" -> 12 [] ch = "D" -> 13 [] ch = "E" -> 14 [] ch = "F" -> 15]

\* '#' and six uppercase hex digits.
WellFormedHex(h) ==
  /\ Len(h) = 7
  /\ h[1] = "#"
  /\ \A j \in 2..7 : h[j] \in DOMAIN HexValue

\* The colour a well-formed hex string denotes.
ParseHex(h) ==
  <<16 * HexValue[h[2]] + HexValue[h[3]],
    16 * HexValue[h[4]] + HexValue[h[5]],
    16 * HexValue[h[6]] + HexValue[h[7]]>>

Entries == DOMAIN result

ReturnedColours == {ParseHex(result[k].color) : k \in Entries}

\* The colours of the image that the result leaves out.
Dropped == Buckets \ ReturnedColours

RECURSIVE SumPercentage(_)
SumPercentage(s) ==
  IF s = <<>> THEN 0 ELSE s[1].percentage + SumPercentage(Tail(s))

RECURSIVE SumPixelCount(_)
SumPixelCount(s) ==
  IF s = <<>> THEN 0 ELSE s[1].pixelCount + SumPixelCount(Tail(s))

\* p hundredths of a percent is count * 100 / total rounded to 2 decimals.
IsRounded2(p, count, total) == 2 * Abs(p * total - count * 10000) <= total

----------------------------------------------------------------------------
\* C1 (as stated): for max_colors > 0 every returned percentage lies in
\* [0, 100], the reported percentages sum to at most 100, and they sum to
\* exactly 100 only when no quantized colour was dropped.
C1_SumAtMost100 ==
  (Returned /\ max_colors > 0) =>
     /\ \A k \in Entries : result[k].percentage \in 0..10000
     /\ SumPercentage(result) <= 10000
     /\ SumPercentage(result) = 10000 => Dropped = {}

\* C1 (amended): for max_colors > 0 every returned percentage lies in
\* [0, 100]; each reported percentage is within 0.005 of the exact share
\* pixelCount * 100 / N; the exact shares sum to at most 100, with equality
\* only when no colour was dropped; so the reported percentages sum to at
\* most 100 + 0.005 * (number of entries).
C1_SumWithinRounding ==
  (Returned /\ max_colors > 0) =>
     /\ \A k \in Entries :
          /\ result[k].percentage \in 0..10000
          /\ IsRounded2(result[k].percentage, result[k].pixelCount, OpaqueCount)
     /\ SumPixelCount(result) <= OpaqueCount
     /\ SumPixelCount(result) = OpaqueCount => Dropped = {}
     /\ 2 * SumPercentage(result) <= 2 * 10000 + Len(result)

\* Three colours of 1, 1 and 4 pixels out of 6: 16.67 + 16.67 + 66.67.
C1_Witness ==
  /\ Returned
  /\ max_colors > 0
  /\ Len(result) = 3
  /\ Dropped = {}
  /\ SumPercentage(result) = 10001

\* C2: for max_colors >= 0 and min_pixels >= 0 the result has at most
\* min(max_colors, number of quantized colours of opaque pixels whose count
\* is >= min_pixels) entries; max_colors = 0 gives the empty result.
C2_LengthBound ==
  Returned =>
     /\ Len(result) <= max_colors
     /\ Len(result) <= Cardinality(Eligible)
     /\ max_colors = 0 => result = <<>>

C2_Witness ==
  /\ Returned
  /\ max_colors > 0
  /\ Cardinality(Eligible) > max_colors
  /\ Len(result) = max_colors

\* C3: the result is sorted by pixelCount descending, and no colour that
\* meets the threshold but was cut by max_colors has a count strictly
\* greater than a returned colour.
C3_SortedDescending ==
  Returned =>
     /\ \A k \in Entries :
          k + 1 \in Entries => result[k].pixelCount >= result[k + 1].pixelCount
     /\ \A c \in Eligible \ ReturnedColours :
          \A k \in Entries : CountOf(c) <= result[k].pixelCount

C3_Witness ==
  /\ Returned
  /\ Len(result) = 2
  /\ result[1].pixelCount > result[2].pixelCount
  /\ \E c \in Eligible \ ReturnedColours : CountOf(c) < result[2].pixelCount

\* C4: a colour with exactly min_pixels - 1 opaque pixels is never returned;
\* every returned entry has pixelCount >= min_pixels; a colour with exactly
\* min_pixels pixels is returned when max_colors does not cut the result;
\* with min_pixels = 0 the threshold removes no colour.
C4_ThresholdBoundary ==
  Returned =>
     /\ \A c \in Buckets : CountOf(c) = min_pixels - 1 => c \notin ReturnedColours
     /\ \A k \in Entries : result[k].pixelCount >= min_pixels
     /\ \A c \in Buckets :
          (CountOf(c) = min_pixels /\ Cardinality(Eligible) <= max_colors)
             => c \in ReturnedColours
     /\ (min_pixels = 0 /\ Cardinality(Buckets) <= max_colors)
           => ReturnedColours = Buckets

C4_Witness ==
  /\ Returned
  /\ min_pixels = 2
  /\ \E c \in Buckets : CountOf(c) = min_pixels - 1 /\ c \notin ReturnedColours
  /\ \E c \in Buckets : CountOf(c) = min_pixels /\ c \in ReturnedColours

\* C5: an image whose pixels all have alpha <= 127 (or that has no pixel)
\* gives the empty result for every max_colors and min_pixels; a pixel counts
\* as opaque exactly when its alpha is > 127, so when nothing is dropped the
\* pixelCounts add up to the number of pixels of alpha > 127.
C5_NoOpaquePixels ==
  Returned =>
     /\ (\A i \in Pixels : AlphaAt(i) <= 127) => result = <<>>
     /\ (OpaqueIdx # {} /\ min_pixels <= 1 /\ Cardinality(Buckets) <= max_colors)
           => SumPixelCount(result) = OpaqueCount

C5_Witness ==
  /\ Returned
  /\ Pixels # {}
  /\ \A i \in Pixels : AlphaAt(i) = 127
  /\ max_colors > 0
  /\ min_pixels = 0
  /\ result = <<>>

\* C9: for every returned entry, pixelCount is the number of opaque pixels
\* whose quantized colour is the entry's colour, whatever their alpha, and
\* percentage is pixelCount * 100 / N rounded to 2 decimals, N the number of
\* pixels of alpha > 127 in the whole image.
C9_PercentageOfOpaque ==
  Returned =>
     \A k \in Entries :
        /\ WellFormedHex(result[k].color)
        /\ result[k].pixelCount = CountOf(ParseHex(result[k].color))
        /\ IsRounded2(result[k].percentage, result[k].pixelCount, OpaqueCount)

\* An entry that gathers pixels of two alpha values, with another colour
\* removed by the threshold.
C9_Witness ==
  /\ Returned
  /\ Len(result) = 1
  /\ Buckets \ Eligible # {}
  /\ \E i, j \in OpaqueIdx :
        /\ BucketAt(i) = ParseHex(result[1].color)
        /\ BucketAt(j) = ParseHex(result[1].color)
        /\ AlphaAt(i) # AlphaAt(j)
  /\ result[1].percentage \notin {0, 10000}

\* C6: a single fully opaque pixel (r, g, b) with min_pixels = 1 and
\* max_colors >= 1 gives exactly one entry, with pixelCount 1, percentage
\* 100.0 and the colour '#' plus two uppercase zero-padded hex digits per
\* channel, each channel the multiple of 15 nearest to r, g, b and within
\* 0..255; (200, 10, 5) gives #C30F00.
C6_SinglePixel ==
  (/\ Returned
   /\ Len(image.data) = 1
   /\ AlphaAt(1) = 255
   /\ min_pixels = 1
   /\ max_colors >= 1) =>
     /\ Len(result) = 1
     /\ result[1].pixelCount = 1
     /\ result[1].percentage = 10000
     /\ WellFormedHex(result[1].color)
     /\ ParseHex(result[1].color) = BucketAt(1)
     /\ \A j \in 1..3 : ParseHex(result[1].color)[j] \in 0..255
     /\ SubSeq(image.data[1], 1, 3) = <<200, 10, 5>>
           => result[1].color = <<"#", "C", "3", "0", "F", "0", "0">>

C6_Witness ==
  /\ Returned
  /\ image.data = << <<200, 10, 5, 255>> >>
  /\ min_pixels = 1
  /\ max_colors = 1
  /\ result = << [color |-> <<"#", "C", "3", "0", "F", "0", "0">>,
                  pixelCount |-> 1, percentage |-> 10000] >>

----------------------------------------------------------------------------
(* What the properties of main speak about *)

\* The assets of the directory: its files named <identifier>.svg.
Assets == DOMAIN files \cap SvgNames

Identifier(f) == SubSeq(f, 1, Len(f) - 4)

\* The asset holds a PNG that loads and decodes.
Loadable(f) == files[f].href = "png"

Keys == [k \in DOMAIN output |-> output[k].key]

LinesOf(kind) == SelectSeq(log, LAMBDA l : l.kind = kind)

\* The for loop has ended.
LoopOver == pc \in {"summary", "done", "aborted"} \/ (pc = "loop" /\ idx > Len(svg_files))

\* s is strictly ascending as identifiers.
AscendingIdentifiers(s) ==
  \A i, j \in DOMAIN s : i < j => LexLess(s[i], s[j])

\* s is strictly ascending as file names, identifier plus ".svg".
AscendingFileNames(s) ==
  \A i, j \in DOMAIN s : i < j => LexLess(s[i] \o SvgSuffix, s[j] \o SvgSuffix)

\* The identifiers that main has begun to process, in the order of the log.
Begun == [k \in DOMAIN LinesOf("processing") |-> LinesOf("processing")[k].name]

\* Every asset that was begun has been recorded or logged as failed: the
\* line after its "processing" line is its own "ok" or "error" line.
OneAtATime ==
  \A p \in DOMAIN log :
     log[p].kind = "processing" =>
        /\ p + 1 \in DOMAIN log
        /\ log[p + 1].kind \in {"ok", "error"}
        /\ log[p + 1].name = log[p].name
        /\ log[p + 1].kind = "ok" <=> \E k \in DOMAIN Keys : Keys[k] = log[p].name

\* The file changes only in the step that follows the last asset.
WrittenAfterAll ==
  disk' # disk =>
     /\ pc = "loop"
     /\ idx > Len(svg_files)
     /\ {Begun[k] : k \in DOMAIN Begun} = {Identifier(f) : f \in Assets}

\* Once the file is written neither it nor the Report changes.
FrozenOnceWritten ==
  pc \in {"summary", "done"} => (disk' = disk /\ output' = output /\ disk = File("written", output))

\* The summary reports the number of keys of the Report.
SummaryCounts ==
  pc = "done" =>
     /\ Len(LinesOf("total")) = 1
     /\ LinesOf("total")[1].n = Len(Keys)
     /\ disk = File("written", output)

\* C7: when the loop is over every asset was processed, the Report has
\* exactly one key for each asset that loaded and was extracted and none
\* for an asset that failed, and the log has one error line per failed asset.
C7_FailedAssetsOmitted ==
  LoopOver =>
     /\ {Begun[k] : k \in DOMAIN Begun} = {Identifier(f) : f \in Assets}
     /\ Len(Begun) = Cardinality(Assets)
     /\ \A f \in Assets :
          Cardinality({k \in DOMAIN Keys : Keys[k] = Identifier(f)})
             = IF Loadable(f) THEN 1 ELSE 0
     /\ \A k \in DOMAIN Keys : \E f \in Assets : Keys[k] = Identifier(f)
     /\ Len(LinesOf("error")) = Cardinality({f \in Assets : ~Loadable(f)})
     /\ \A f \in Assets :
          ~Loadable(f) <=>
             \E p \in DOMAIN log : log[p].kind = "error" /\ log[p].name = Identifier(f)

\* One valid asset and one without the embedded payload: one key, one failure.
C7_Witness ==
  /\ pc = "done"
  /\ Cardinality(Assets) = 2
  /\ \E f, g \in Assets : files[f].href = "png" /\ files[g].href = "none"
  /\ disk.state = "written"
  /\ Len(disk.doc) = 1
  /\ Len(LinesOf("error")) = 1

\* C10 (as stated): assets are processed one at a time in sorted order of
\* identifier; the Report is written once, after every asset, and does not
\* change afterwards; its keys are in sorted order of identifier; a run
\* without a run-level I/O error reaches the summary, which reports the
\* number of keys.
C10_IdentifierOrder ==
  /\ [](OneAtATime /\ AscendingIdentifiers(Begun) /\ AscendingIdentifiers(Keys)
          /\ SummaryCounts)
  /\ [][WrittenAfterAll /\ FrozenOnceWritten]_vars
  /\ <>(pc \in {"done", "aborted"})

\* C10 (amended): as stated, with the order of processing and of the keys
\* that of the file names (identifier plus ".svg"), which is the order of
\* the identifiers unless one identifier continues another with a character
\* below ".".
C10_FileNameOrder ==
  /\ [](OneAtATime /\ AscendingFileNames(Begun) /\ AscendingFileNames(Keys)
          /\ SummaryCounts)
  /\ [][WrittenAfterAll /\ FrozenOnceWritten]_vars
  /\ <>(pc \in {"done", "aborted"})

\* "a-b" was processed and recorded before "a", and the summary was printed.
C10_Witness ==
  /\ pc = "done"
  /\ Len(Keys) = 2
  /\ Keys[1] = <<97, 45, 98>>
  /\ Keys[2] = <<97>>
  /\ Len(Begun) = 3
  /\ disk = File("written", output)

====
